---------------------------- MODULE Spec2Model ----------------------------
(***************************************************************************)
(* PetIBM: Lagrangian marker partition (body::SingleBodyPoints), boundary  *)
(* factory (boundary::createSingleBoundary) and the staged time step of    *)
(* the decoupled IBPM solver.                                              *)
(*                                                                         *)
(* The body object lives on every MPI rank of the communicator (SPMD).     *)
(* Each per-rank member of SingleBodyPoints is a function of the rank.     *)
(* A handler that contains a blocking collective (MPI_Allgather,           *)
(* MPI_Barrier, MPI_Allreduce) is cut at that collective, and nowhere      *)
(* else.                                                                   *)
(***************************************************************************)
EXTENDS Integers, Sequences, FiniteSets, TLC

VARIABLES
    mpiSize,          \* number of ranks of comm
    dim,              \* constructor argument dim (dimension of the mesh)
    file,             \* the body file at filePath: [ok, nPts, fdim, coords]
    da,               \* the 1-D DMDA shared by the ranks: [st, lx]
    pc,               \* pc[r]: where rank r is in the constructor
    nPts,             \* nPts[r]
    coords,           \* coords[r]: marker -> dimension -> coordinate
    coords0,          \* coords0[r]: snapshot of the initial coordinates
    bgPt,             \* bgPt[r]
    nLclPts,          \* nLclPts[r]
    edPt,             \* edPt[r]
    nLclAllProcs,     \* nLclAllProcs[r][q]
    offsetsAllProcs,  \* offsetsAllProcs[r][q]
    meshIdx,          \* meshIdx[r]: local marker -> dimension -> cell index
    initErr,          \* initErr[r]: the PetscErrorCode returned by init
    ctorErr,          \* ctorErr[r]: the error the caller of the constructor sees
    call,             \* the last call of a const query and its result
    mesh,             \* argument of the last updateMeshIdx
    upd,              \* upd[r]: result of the last updateMeshIdx on rank r
    f,                \* the Lagrangian force vector (DMDA vector of da)
    fAvgLocal,        \* fAvgLocal[r]: local partial sums of calculateAvgForces
    fAvg,             \* fAvg[r]: the caller's output vector on rank r
    fpc,              \* fpc[r]: where rank r is in calculateAvgForces
    bd,               \* last call of createSingleBoundary and the caller's singleBd
    adv               \* the decoupled IBPM run: step, stages done, failure

bodyVars == <<mpiSize, dim, file, da, pc, nPts, coords, coords0, bgPt, nLclPts,
              edPt, nLclAllProcs, offsetsAllProcs, meshIdx, initErr, ctorErr>>
meshVars == <<mesh, upd>>
forceVars == <<f, fAvgLocal, fAvg, fpc>>
vars == <<mpiSize, dim, file, da, pc, nPts, coords, coords0, bgPt, nLclPts,
          edPt, nLclAllProcs, offsetsAllProcs, meshIdx, initErr, ctorErr,
          call, mesh, upd, f, fAvgLocal, fAvg, fpc, bd, adv>>

(***************************************************************************)
(* Bounds of the model.                                                    *)
(***************************************************************************)
\* ranks in the communicator
MaxP == 3
\* markers in the body file
MaxN == 2
\* dimension of the mesh and of the file's coordinates
MaxDim == 2
\* ranks in the runs of updateMeshIdx
MeshMaxP == 2
\* marker coordinates (markers times dimensions) in the runs of updateMeshIdx
MaxPairs == 4
\* time steps of a run of the solver
MaxSteps == 5

Ranks == 0 .. (mpiSize - 1)
Dofs == 0 .. (dim - 1)

\* std::vector<T>(n, v), indices 0..n-1
Vec1D(n, v) == [k \in 0 .. (n - 1) |-> v]
\* type::IntVec2D(n, type::IntVec1D(m, v))
Vec2D(n, m, v) == [k \in 0 .. (n - 1) |-> Vec1D(m, v)]
EmptyVec == Vec1D(0, 0)

RECURSIVE SumTo(_, _)
\* lx[0] + ... + lx[k-1]
SumTo(lx, k) == IF k <= 0 THEN 0 ELSE SumTo(lx, k - 1) + lx[k - 1]

(***************************************************************************)
(* Error codes (PetscErrorCode); "0" is success.                           *)
(***************************************************************************)
OK == "0"
ErrFileOpen == "PETSC_ERR_FILE_OPEN"
ErrFileRead == "PETSC_ERR_FILE_READ"
ErrArgSiz == "PETSC_ERR_ARG_SIZ"
ErrMaxValue == "PETSC_ERR_MAX_VALUE"
ErrLib == "PETSC_ERR_LIB"

(***************************************************************************)
(* The 1-D DMDA.  DMDACreate1d/DMSetUp are collective library calls: they  *)
(* either fail on every rank, or give every rank a block of lx[r] markers, *)
(* the blocks being contiguous in rank order and covering [0, M).  The     *)
(* model admits every such split.                                          *)
(***************************************************************************)
NoDA == [st |-> "none", lx |-> EmptyVec]
FailedDA == [st |-> "failed", lx |-> EmptyVec]
Splits(P, M) == {lx \in [0 .. (P - 1) -> 0 .. M] : SumTo(lx, P) = M}
DMDACreate1d(P, M) == {FailedDA} \cup {[st |-> "ok", lx |-> lx] : lx \in Splits(P, M)}
\* DMDAGetLocalInfo: lclInfo.xs and lclInfo.xm of rank r
LocalInfo(d, r) == [xs |-> SumTo(d.lx, r), xm |-> d.lx[r]]

(***************************************************************************)
(* io::readLagrangianPoints: the file gives nPts and coords, or the read   *)
(* fails.                                                                  *)
(***************************************************************************)
\* the coordinates a file of n markers in fd dimensions may hold
FileCoords(n, fd, vals) == [0 .. (n - 1) -> [0 .. (fd - 1) -> vals]]

\* init line 39: (unsigned)dim != coords[0].size().  With an empty coords the
\* read of coords[0] is undefined: the check may pass, fail, or the process dies.
DimCheck(n, d, fd) ==
    IF n = 0 THEN {"pass", "fail", "crash"}
    ELSE IF d # fd THEN {"fail"} ELSE {"pass"}

\* an end point that is the last owned marker instead of one past it
LocalRange_inclusiveEnd(lclInfo) ==
    [bgPt |-> lclInfo.xs, nLclPts |-> lclInfo.xm,
     edPt |-> lclInfo.xs + lclInfo.xm - 1]
\* createDMDA lines 75-77: bgPt = xs; nLclPts = xm; edPt = bgPt + nLclPts
LocalRange(lclInfo) ==
    [bgPt |-> lclInfo.xs, nLclPts |-> lclInfo.xm,
     edPt |-> lclInfo.xs + lclInfo.xm]

(***************************************************************************)
(* createDMDA, lines 79-90, after the MPI_Allgather of nLclPts.            *)
(***************************************************************************)
\* line 84: for (auto &it : nLclAllProcs) it *= dim
ScaleByDim(v, d) == [q \in DOMAIN v |-> v[q] * d]
\* lines 87-88: for r = mpiSize-1 .. 1: offsetsAllProcs[r] = nLclAllProcs[r-1]
ShiftOffsets(off, nl, P) ==
    [q \in DOMAIN off |-> IF q > 0 /\ q <= P - 1 THEN nl[q - 1] ELSE off[q]]
\* an accumulation that is skipped: the table holds counts, not offsets
AccumOffsets_skipped(off, r, P) == off
RECURSIVE AccumOffsets(_, _, _)
\* lines 89-90: for r = 1 .. mpiSize-1: offsetsAllProcs[r] += offsetsAllProcs[r-1]
AccumOffsets(off, r, P) ==
    IF r >= P THEN off
    ELSE AccumOffsets([off EXCEPT ![r] = off[r] + off[r - 1]], r + 1, P)

RECURSIVE upper_bound(_, _, _, _)
\* std::upper_bound over vec[first .. first+len-1]: the binary search of the
\* standard library; returns the position of the first element > val
upper_bound(vec, first, len, val) ==
    IF len <= 0 THEN first
    ELSE LET half == len \div 2
             middle == first + half
         IN  IF val < vec[middle]
             THEN upper_bound(vec, first, half, val)
             ELSE upper_bound(vec, middle + 1, len - half - 1, val)

Size(vec) == Cardinality(DOMAIN vec)

RECURSIVE lower_bound(_, _, _, _)
\* std::lower_bound: the position of the first element >= val
lower_bound(vec, first, len, val) ==
    IF len <= 0 THEN first
    ELSE LET half == len \div 2
             middle == first + half
         IN  IF vec[middle] < val
             THEN lower_bound(vec, middle + 1, len - half - 1, val)
             ELSE lower_bound(vec, first, half, val)

(***************************************************************************)
(* The const queries, as functions of the members of rank r and of the     *)
(* value pre the caller's output variable holds before the call.           *)
(***************************************************************************)
\* findProc searching with lower_bound instead of upper_bound
findProc_lowerBound(r, i, pre) ==
    IF (i < 0) \/ (i >= nPts[r])
    THEN [ierr |-> ErrArgSiz, msg |-> "index", out |-> pre]
    ELSE [ierr |-> OK, msg |-> "",
          out |-> lower_bound(offsetsAllProcs[r], 0, Size(offsetsAllProcs[r]),
                              i * dim) - 0 - 1]
\* findProc(i, p), lines 156-172
findProc(r, i, pre) ==
    IF (i < 0) \/ (i >= nPts[r])
    THEN [ierr |-> ErrArgSiz, msg |-> "index", out |-> pre]
    ELSE [ierr |-> OK, msg |-> "",
          out |-> upper_bound(offsetsAllProcs[r], 0, Size(offsetsAllProcs[r]),
                              i * dim) - 0 - 1]

\* getGlobalIndex flattening dof-major instead of marker-major
getGlobalIndex_dofMajor(r, i, dof, pre) ==
    IF (i < 0) \/ (i >= nPts[r])
    THEN [ierr |-> ErrArgSiz, msg |-> "index", out |-> pre]
    ELSE IF (dof < 0) \/ (dof >= dim)
    THEN [ierr |-> ErrArgSiz, msg |-> "dof", out |-> pre]
    ELSE [ierr |-> OK, msg |-> "", out |-> dof * nPts[r] + i]
\* getGlobalIndex checking the dof before the marker index
getGlobalIndex_dofFirst(r, i, dof, pre) ==
    IF (dof < 0) \/ (dof >= dim)
    THEN [ierr |-> ErrArgSiz, msg |-> "dof", out |-> pre]
    ELSE IF (i < 0) \/ (i >= nPts[r])
    THEN [ierr |-> ErrArgSiz, msg |-> "index", out |-> pre]
    ELSE [ierr |-> OK, msg |-> "", out |-> i * dim + dof]
\* getGlobalIndex(i, dof, idx), lines 174-193
getGlobalIndex(r, i, dof, pre) ==
    IF (i < 0) \/ (i >= nPts[r])
    THEN [ierr |-> ErrArgSiz, msg |-> "index", out |-> pre]
    ELSE IF (dof < 0) \/ (dof >= dim)
    THEN [ierr |-> ErrArgSiz, msg |-> "dof", out |-> pre]
    ELSE [ierr |-> OK, msg |-> "", out |-> i * dim + dof]

\* getGlobalIndex(const MatStencil &s, idx), lines 195-205
getGlobalIndexStencil(r, s, pre) == getGlobalIndex(r, s.i, s.c, pre)

NoCall == [op |-> "none", rank |-> 0, i |-> 0, dof |-> 0, pre |-> 0,
           ierr |-> OK, msg |-> "", out |-> 0]
\* values the caller's output variable may hold before a call
OutInit == {-7}
\* MatStencil s: fields i (marker) and c (component); k, j are not read
MatStencils(n, d) == [i : -1 .. n, c : -1 .. d]

(***************************************************************************)
(* Initial state: the ranks of comm are about to construct the body.  The  *)
(* base class has sized nLclAllProcs and offsetsAllProcs to mpiSize zeros. *)
(***************************************************************************)
\* the body files with coordinates in vals and at most cap coordinates; a
\* file without markers has no coordinate columns to tell its dimension by
BodyFiles(vals, cap) ==
    {[ok |-> FALSE, nPts |-> 0, fdim |-> 1, coords |-> EmptyVec]}
    \cup UNION {{[ok |-> TRUE, nPts |-> sz[1], fdim |-> sz[2], coords |-> c] :
                    c \in FileCoords(sz[1], sz[2], vals)} :
                 sz \in {t \in (0 .. MaxN) \X (1 .. MaxDim) :
                           t[1] * t[2] <= cap /\ (t[1] = 0 => t[2] = 1)}}

Indeterminate == {0, MaxN}

IdleMesh == [min |-> EmptyVec, max |-> EmptyVec, coord |-> EmptyVec, n |-> EmptyVec]
\* singleBd before any call: an empty shared pointer
NullBd == [class |-> "null", loc |-> "", field |-> "", value |-> 0]
IdleBd == [called |-> FALSE, bcType |-> "", loc |-> "", field |-> "", value |-> 0,
           ret |-> OK, before |-> NullBd, singleBd |-> NullBd]
IdleAdv == [forcesFirst |-> FALSE, ite |-> 0, pos |-> 1, failed |-> FALSE,
            log |-> << >>]

InitBase(P) ==
    /\ pc = [r \in 0 .. (P - 1) |-> "new"]
    /\ nPts = Vec1D(P, 0)
    /\ coords = Vec1D(P, EmptyVec)
    /\ coords0 = Vec1D(P, EmptyVec)
    /\ bgPt = Vec1D(P, 0)
    /\ nLclPts = Vec1D(P, 0)
    /\ edPt = Vec1D(P, 0)
    /\ nLclAllProcs = Vec1D(P, Vec1D(P, 0))
    /\ offsetsAllProcs = Vec1D(P, Vec1D(P, 0))
    /\ meshIdx = Vec1D(P, EmptyVec)
    /\ initErr = Vec1D(P, OK)
    /\ ctorErr = Vec1D(P, OK)

Init ==
    /\ mpiSize \in 1 .. MaxP
    /\ dim \in 1 .. MaxDim
    /\ file \in BodyFiles({1}, MaxN * MaxDim)
    /\ da = NoDA
    /\ InitBase(mpiSize)
    /\ call = NoCall
    /\ mesh = IdleMesh
    /\ upd = Vec1D(mpiSize, "none")
    /\ f = EmptyVec
    /\ fAvgLocal = Vec1D(mpiSize, EmptyVec)
    /\ fAvg = Vec1D(mpiSize, EmptyVec)
    /\ fpc = Vec1D(mpiSize, "idle")
    /\ bd = IdleBd
    /\ adv = IdleAdv

(***************************************************************************)
(* SingleBodyPoints::SingleBodyPoints, lines 19-25, running init, lines    *)
(* 27-59, up to the MPI_Allgather of createDMDA (line 80).  The return     *)
(* value of init is discarded by the constructor (line 24).                *)
(***************************************************************************)
\* readBody fails (line 36): init returns the error.  nPts was never assigned:
\* its value is indeterminate (Indeterminate gives the values the model tries)
CtorReadFails(r) ==
    /\ pc[r] = "new"
    /\ ~file.ok
    /\ \E n \in Indeterminate : nPts' = [nPts EXCEPT ![r] = n]
    /\ initErr' = [initErr EXCEPT ![r] = ErrFileOpen]
    /\ pc' = [pc EXCEPT ![r] = "constructed"]
    /\ UNCHANGED <<mpiSize, dim, file, da, coords, coords0, bgPt, nLclPts, edPt,
                   nLclAllProcs, offsetsAllProcs, meshIdx, ctorErr>>

\* the dimension check of line 39 fails (lines 40-42), or the process dies
\* reading coords[0] of an empty coords
CtorDimMismatch(r) ==
    /\ pc[r] = "new"
    /\ file.ok
    /\ nPts' = [nPts EXCEPT ![r] = file.nPts]
    /\ coords' = [coords EXCEPT ![r] = file.coords]
    /\ \E o \in DimCheck(file.nPts, dim, file.fdim) \ {"pass"} :
          IF o = "fail"
          THEN /\ initErr' = [initErr EXCEPT ![r] = ErrFileRead]
               /\ pc' = [pc EXCEPT ![r] = "constructed"]
          ELSE /\ initErr' = initErr
               /\ pc' = [pc EXCEPT ![r] = "crashed"]
    /\ UNCHANGED <<mpiSize, dim, file, da, coords0, bgPt, nLclPts, edPt,
                   nLclAllProcs, offsetsAllProcs, meshIdx, ctorErr>>

\* lines 36-49 and createDMDA lines 68-77: the DMDA is created by the first
\* rank that gets here and is the same object for the others
CtorCreateDMDA(r) ==
    /\ pc[r] = "new"
    /\ file.ok
    /\ "pass" \in DimCheck(file.nPts, dim, file.fdim)
    /\ nPts' = [nPts EXCEPT ![r] = file.nPts]
    /\ coords' = [coords EXCEPT ![r] = file.coords]
    /\ coords0' = [coords0 EXCEPT ![r] = file.coords]
    /\ \E d \in (IF da = NoDA THEN DMDACreate1d(mpiSize, file.nPts) ELSE {da}) :
          /\ da' = d
          /\ IF d.st = "failed"
             THEN /\ initErr' = [initErr EXCEPT ![r] = ErrLib]
                  /\ pc' = [pc EXCEPT ![r] = "constructed"]
                  /\ UNCHANGED <<bgPt, nLclPts, edPt>>
             ELSE LET lcl == LocalRange(LocalInfo(d, r))
                  IN  /\ bgPt' = [bgPt EXCEPT ![r] = lcl.bgPt]
                      /\ nLclPts' = [nLclPts EXCEPT ![r] = lcl.nLclPts]
                      /\ edPt' = [edPt EXCEPT ![r] = lcl.edPt]
                      /\ pc' = [pc EXCEPT ![r] = "allgather"]
                      /\ initErr' = initErr
    /\ UNCHANGED <<mpiSize, dim, file, nLclAllProcs, offsetsAllProcs, meshIdx,
                   ctorErr>>

\* rank q has sent its nLclPts to the MPI_Allgather
Contributed(q) == pc[q] \in {"allgather", "barrier", "done"}

\* createDMDA lines 80-92, init lines 53-56, createInfoString up to its
\* MPI_Barrier (line 151)
CtorGather(r) ==
    /\ pc[r] = "allgather"
    /\ \A q \in Ranks : Contributed(q)
    /\ LET gathered == [q \in Ranks |-> nLclPts[q]]
           nl == ScaleByDim(gathered, dim)
           off == AccumOffsets(ShiftOffsets(offsetsAllProcs[r], nl, mpiSize),
                               1, mpiSize)
       IN  /\ nLclAllProcs' = [nLclAllProcs EXCEPT ![r] = nl]
           /\ offsetsAllProcs' = [offsetsAllProcs EXCEPT ![r] = off]
    /\ meshIdx' = [meshIdx EXCEPT ![r] = Vec2D(nLclPts[r], dim, 0)]
    /\ pc' = [pc EXCEPT ![r] = "barrier"]
    /\ UNCHANGED <<mpiSize, dim, file, da, nPts, coords, coords0, bgPt, nLclPts,
                   edPt, initErr, ctorErr>>

\* the MPI_Barrier of createInfoString returns, init returns 0 (line 58) and
\* the constructor returns
CtorBarrier(r) ==
    /\ pc[r] = "barrier"
    /\ \A q \in Ranks : pc[q] \in {"barrier", "done"}
    /\ pc' = [pc EXCEPT ![r] = "done"]
    /\ UNCHANGED <<mpiSize, dim, file, da, nPts, coords, coords0, bgPt, nLclPts,
                   edPt, nLclAllProcs, offsetsAllProcs, meshIdx, initErr, ctorErr>>

SingleBodyPoints(r) ==
    /\ \/ CtorReadFails(r)
       \/ CtorDimMismatch(r)
       \/ CtorCreateDMDA(r)
       \/ CtorGather(r)
       \/ CtorBarrier(r)
    /\ UNCHANGED <<call, mesh, upd, f, fAvgLocal, fAvg, fpc, bd, adv>>

\* the constructor has returned on rank r: the caller holds the object
Constructed(r) == pc[r] \in {"constructed", "done"}

(***************************************************************************)
(* Calls of the const queries on a constructed object.  The queries change *)
(* no member, so a behaviour records one of them: what a query returns     *)
(* does not depend on the queries made before it.  The members a query     *)
(* reads are final once the constructor has returned on the rank; the      *)
(* query is issued when no rank can move in its constructor any more.      *)
(***************************************************************************)
CtorCanMove(q) ==
    \/ pc[q] = "new"
    \/ pc[q] = "allgather" /\ \A t \in Ranks : Contributed(t)
    \/ pc[q] = "barrier" /\ \A t \in Ranks : pc[t] \in {"barrier", "done"}

Query(op, r, i, dof, pre, res) ==
    /\ call = NoCall
    /\ \A q \in Ranks : ~CtorCanMove(q)
    /\ call' = [op |-> op, rank |-> r, i |-> i, dof |-> dof, pre |-> pre,
                ierr |-> res.ierr, msg |-> res.msg, out |-> res.out]
    /\ UNCHANGED <<bodyVars, mesh, upd, f, fAvgLocal, fAvg, fpc, bd, adv>>

FindProc(r) ==
    /\ Constructed(r)
    /\ \E i \in -1 .. MaxN, pre \in OutInit :
          Query("findProc", r, i, 0, pre, findProc(r, i, pre))

GetGlobalIndex(r) ==
    /\ Constructed(r)
    /\ \E i \in -1 .. MaxN, dof \in -1 .. MaxDim, pre \in OutInit :
          Query("getGlobalIndex", r, i, dof, pre, getGlobalIndex(r, i, dof, pre))

GetGlobalIndexStencil(r) ==
    /\ Constructed(r)
    /\ \E s \in MatStencils(MaxN, MaxDim), pre \in OutInit :
          Query("getGlobalIndexStencil", r, s.i, s.c, pre,
                getGlobalIndexStencil(r, s, pre))

Next ==
    \E r \in Ranks :
        \/ SingleBodyPoints(r)
        \/ FindProc(r)
        \/ GetGlobalIndex(r)
        \/ GetGlobalIndexStencil(r)

Spec == Init /\ [][Next]_vars

(***************************************************************************)
(* The state in which every rank has constructed the body successfully:    *)
(* P ranks, dimension d, body file fl, DMDA split lx.                      *)
(***************************************************************************)
BodyBuilt(P, d, fl, lx) ==
    /\ file = fl
    /\ da = [st |-> "ok", lx |-> lx]
    /\ pc = Vec1D(P, "done")
    /\ nPts = Vec1D(P, fl.nPts)
    /\ coords = Vec1D(P, fl.coords)
    /\ coords0 = Vec1D(P, fl.coords)
    /\ bgPt = [r \in 0 .. (P - 1) |-> SumTo(lx, r)]
    /\ nLclPts = [r \in 0 .. (P - 1) |-> lx[r]]
    /\ edPt = [r \in 0 .. (P - 1) |-> SumTo(lx, r + 1)]
    /\ nLclAllProcs = Vec1D(P, [q \in 0 .. (P - 1) |-> lx[q] * d])
    /\ offsetsAllProcs = Vec1D(P, [q \in 0 .. (P - 1) |-> SumTo(lx, q) * d])
    /\ meshIdx = [r \in 0 .. (P - 1) |-> Vec2D(lx[r], d, 0)]
    /\ initErr = Vec1D(P, OK)
    /\ ctorErr = Vec1D(P, OK)

\* the files init accepts in dimension d
GoodFiles(d, vals, cap) ==
    {fl \in BodyFiles(vals, cap) : fl.ok /\ "pass" \in DimCheck(fl.nPts, d, fl.fdim)}

\* the construction of Spec ends in BodyBuilt
BuiltIsReached ==
    (\A r \in Ranks : pc[r] = "done") =>
        /\ file \in GoodFiles(dim, {1}, MaxN * MaxDim)
        /\ da.lx \in Splits(mpiSize, file.nPts)
        /\ BodyBuilt(mpiSize, dim, file, da.lx)

(***************************************************************************)
(* calculateAvgForces(f, fAvg), lines 207-236, cut at its MPI_Barrier and  *)
(* its MPI_Allreduce.  f is a vector of da: fArry[i][dof] for the markers  *)
(* i of the rank.                                                          *)
(***************************************************************************)
\* values of the entries of f
FVals == {-1, 2}

RECURSIVE LocalForcesLoop(_, _, _, _, _)
\* lines 220-227 from marker i on: fAvgLocal[dof] -= fArry[i][dof]
LocalForcesLoop(fArry, acc, i, ed, d) ==
    IF i >= ed THEN acc
    ELSE LocalForcesLoop(fArry, [dof \in 0 .. (d - 1) |-> acc[dof] - fArry[i][dof]],
                         i + 1, ed, d)
\* local sums that are not negated: fAvgLocal[dof] += fArry[i][dof]
LocalForces_notNegated(fArry, bg, ed, d) ==
    LET neg == LocalForcesLoop(fArry, Vec1D(d, 0), bg, ed, d)
    IN  [dof \in 0 .. (d - 1) |-> 0 - neg[dof]]
\* lines 216-227: fAvgLocal(dim, 0.0), then the loop over [bgPt, edPt)
LocalForces(fArry, bg, ed, d) == LocalForcesLoop(fArry, Vec1D(d, 0), bg, ed, d)

\* MPI_Allreduce with MPI_SUM over the ranks' send buffers
AllreduceSum(send, P, d) ==
    [dof \in 0 .. (d - 1) |-> SumTo([q \in 0 .. (P - 1) |-> send[q][dof]], P)]

InitForces ==
    /\ mpiSize \in 1 .. MaxP
    /\ dim \in 1 .. MaxDim
    /\ \E fl \in GoodFiles(dim, {1}, MaxN * MaxDim) :
          /\ \E lx \in Splits(mpiSize, fl.nPts) : BodyBuilt(mpiSize, dim, fl, lx)
          /\ f \in [0 .. (fl.nPts - 1) -> [0 .. (dim - 1) -> FVals]]
    /\ call = NoCall
    /\ mesh = IdleMesh
    /\ upd = Vec1D(mpiSize, "none")
    /\ fAvgLocal = Vec1D(mpiSize, EmptyVec)
    /\ fAvg = Vec1D(mpiSize, Vec1D(dim, -7))
    /\ fpc = Vec1D(mpiSize, "idle")
    /\ bd = IdleBd
    /\ adv = IdleAdv

\* lines 216-228: the local sums, up to the MPI_Barrier
AvgForcesLocal(r) ==
    /\ fpc[r] = "idle"
    /\ fAvgLocal' = [fAvgLocal EXCEPT ![r] = LocalForces(f, bgPt[r], edPt[r], dim)]
    /\ fpc' = [fpc EXCEPT ![r] = "barrier"]
    /\ UNCHANGED <<bodyVars, call, mesh, upd, f, fAvg, bd, adv>>

\* the MPI_Barrier returns; the rank enters MPI_Allreduce (line 230)
AvgForcesBarrier(r) ==
    /\ fpc[r] = "barrier"
    /\ \A q \in Ranks : fpc[q] \in {"barrier", "allreduce", "done"}
    /\ fpc' = [fpc EXCEPT ![r] = "allreduce"]
    /\ UNCHANGED <<bodyVars, call, mesh, upd, f, fAvgLocal, fAvg, bd, adv>>

\* MPI_Allreduce returns, lines 230-235
AvgForcesReduce(r) ==
    /\ fpc[r] = "allreduce"
    /\ \A q \in Ranks : fpc[q] \in {"allreduce", "done"}
    /\ fAvg' = [fAvg EXCEPT ![r] = AllreduceSum(fAvgLocal, mpiSize, dim)]
    /\ fpc' = [fpc EXCEPT ![r] = "done"]
    /\ UNCHANGED <<bodyVars, call, mesh, upd, f, fAvgLocal, bd, adv>>

NextForces ==
    \E r \in Ranks :
        \/ AvgForcesLocal(r)
        \/ AvgForcesBarrier(r)
        \/ AvgForcesReduce(r)

SpecForces == InitForces /\ [][NextForces]_vars

\* C6: calculateAvgForces leaves on every rank the same D-vector fAvg with
\* fAvg[dof] = -(sum of f[i][dof] over all N markers); every marker counts
\* once, ranks that own no marker contribute zero.
C6_AvgForces ==
    /\ \A r \in Ranks : fpc[r] = "done" =>
          /\ DOMAIN fAvg[r] = Dofs
          /\ \A dof \in Dofs :
                fAvg[r][dof]
                   = 0 - SumTo([i \in 0 .. (nPts[r] - 1) |-> f[i][dof]], nPts[r])
          /\ \A q \in Ranks : fpc[q] = "done" => fAvg[q] = fAvg[r]
    /\ \A r \in Ranks : (fpc[r] # "idle" /\ nLclPts[r] = 0) =>
          fAvgLocal[r] = Vec1D(dim, 0)

\* three ranks, the middle one owns nothing; the two markers carry 2 and -1
C6_Witness ==
    /\ mpiSize = 3 /\ dim = 2 /\ nPts[0] = 2
    /\ nLclPts = (0 :> 1 @@ 1 :> 0 @@ 2 :> 1)
    /\ f = (0 :> (0 :> 2 @@ 1 :> 2) @@ 1 :> (0 :> -1 @@ 1 :> 2))
    /\ \A r \in Ranks : fpc[r] = "done" /\ fAvg[r] = (0 :> -1 @@ 1 :> -4)

(***************************************************************************)
(* updateMeshIdx(mesh), lines 95-119.  Of the mesh it reads min[d], max[d] *)
(* and the vertex coordinates coord[4][d][0 .. n[4][d]-1]; the fields      *)
(* coord and n of the model are coord[4] and n[4].  A mesh has, along each *)
(* axis, at least two vertices, strictly increasing from min[d] to max[d]. *)
(***************************************************************************)
\* the coordinates of markers and of mesh vertices
CoordVals == {0, 1, 2}
SortedArr(S) ==
    [k \in 0 .. (Cardinality(S) - 1) |->
        CHOOSE x \in S : Cardinality({y \in S : y < x}) = k]
MeshAxes == {SortedArr(S) : S \in {T \in SUBSET CoordVals : Cardinality(T) >= 2}}
\* the largest number of vertices of a mesh, all axes together
MaxVerts == 5
Meshes(d) ==
    {[min |-> [k \in 0 .. (d - 1) |-> ax[k][0]],
      max |-> [k \in 0 .. (d - 1) |-> ax[k][Size(ax[k]) - 1]],
      coord |-> ax,
      n |-> [k \in 0 .. (d - 1) |-> Size(ax[k])]] :
        ax \in {a \in [0 .. (d - 1) -> MeshAxes] :
                  SumTo([k \in 0 .. (d - 1) |-> Size(a[k])], d) <= MaxVerts}}

\* line 104 with the comparisons not strict: a marker on the edge is accepted
OutsideDomain_edgeAccepted(m, d, x) == m.min[d] > x \/ m.max[d] < x
\* line 104: mesh->min[d] >= coords[i][d] || mesh->max[d] <= coords[i][d]
OutsideDomain(m, d, x) == m.min[d] >= x \/ m.max[d] <= x

\* lines 111-114 with std::lower_bound in the place of std::upper_bound
CellIndex_lowerBound(m, d, x) == lower_bound(m.coord[d], 0, m.n[d], x) - 0 - 1
\* lines 111-114 without the final - 1
CellIndex_noMinusOne(m, d, x) == upper_bound(m.coord[d], 0, m.n[d], x) - 0
\* lines 111-114: upper_bound(coord[4][d], coord[4][d] + n[4][d], x) - coord[4][d] - 1
CellIndex(m, d, x) == upper_bound(m.coord[d], 0, m.n[d], x) - 0 - 1

\* lines 100-116 with every pair checked before the first index is written:
\* a failing call leaves meshIdx as it was
updateMeshIdxLoop_allOrNothing(m, crd, mi, i, d, bg, ed, dm) ==
    LET todo == {p \in (i .. (ed - 1)) \X (0 .. (dm - 1)) : p[1] > i \/ p[2] >= d}
        bad == {p \in todo : OutsideDomain(m, p[2], crd[p[1]][p[2]])}
        first == CHOOSE p \in bad :
                    \A q \in bad : p[1] < q[1] \/ (p[1] = q[1] /\ p[2] <= q[2])
    IN  IF bad # {}
        THEN [ierr |-> ErrMaxValue, i |-> first[1], d |-> first[2], meshIdx |-> mi]
        ELSE [ierr |-> OK, i |-> IF i >= ed THEN i ELSE ed, d |-> 0,
              meshIdx |-> [c \in DOMAIN mi |-> [b \in DOMAIN mi[c] |->
                              IF <<c + bg, b>> \in todo
                              THEN CellIndex(m, b, crd[c + bg][b])
                              ELSE mi[c][b]]]]

RECURSIVE updateMeshIdxLoop(_, _, _, _, _, _, _, _)
\* the loops of lines 100-116 from the pair (i, d) on, c = i - bg, with mi the
\* value of meshIdx so far; gives the return code, the pair at which the
\* call stopped and the final meshIdx
updateMeshIdxLoop(m, crd, mi, i, d, bg, ed, dm) ==
    IF i >= ed THEN [ierr |-> OK, i |-> i, d |-> 0, meshIdx |-> mi]
    ELSE IF d >= dm THEN updateMeshIdxLoop(m, crd, mi, i + 1, 0, bg, ed, dm)
    ELSE IF OutsideDomain(m, d, crd[i][d])
    THEN [ierr |-> ErrMaxValue, i |-> i, d |-> d, meshIdx |-> mi]
    ELSE updateMeshIdxLoop(m, crd,
                           [mi EXCEPT ![i - bg][d] = CellIndex(m, d, crd[i][d])],
                           i, d + 1, bg, ed, dm)

updateMeshIdx(r, m) ==
    updateMeshIdxLoop(m, coords[r], meshIdx[r], bgPt[r], 0, bgPt[r], edPt[r], dim)

InitMesh ==
    /\ mpiSize \in 1 .. MeshMaxP
    /\ dim \in 1 .. MaxDim
    /\ \E fl \in GoodFiles(dim, CoordVals, MaxPairs) :
          \E lx \in Splits(mpiSize, fl.nPts) : BodyBuilt(mpiSize, dim, fl, lx)
    /\ mesh \in Meshes(dim)
    /\ upd = Vec1D(mpiSize, "none")
    /\ call = NoCall
    /\ f = EmptyVec
    /\ fAvgLocal = Vec1D(mpiSize, EmptyVec)
    /\ fAvg = Vec1D(mpiSize, EmptyVec)
    /\ fpc = Vec1D(mpiSize, "idle")
    /\ bd = IdleBd
    /\ adv = IdleAdv

\* one call of updateMeshIdx(m) on rank r.  The caller passes the mesh it
\* holds, which between calls may have become another mesh (line 95 takes it
\* by reference); mesh is the argument of the latest call and upd[q] the
\* return code of rank q's latest call with that mesh, "none" if it made none.
\* The ranks run the same program: the mesh changes only between rounds in
\* which every rank has made its call.  A call reads and writes only members
\* of its own rank, so the order of the calls of a round does not matter and
\* the ranks are taken in increasing order.
UpdateMeshIdx(r) ==
    /\ Constructed(r)
    /\ \E m \in Meshes(dim) :
          LET res == updateMeshIdx(r, m)
          IN  /\ \/ /\ m = mesh
                    /\ upd[r] = "none"
                    /\ \A q \in 0 .. (r - 1) : upd[q] # "none"
                 \/ /\ r = 0
                    /\ \A q \in Ranks : upd[q] # "none"
              /\ mesh' = m
              /\ meshIdx' = [meshIdx EXCEPT ![r] = res.meshIdx]
              /\ upd' = [q \in Ranks |->
                            IF q = r THEN res.ierr
                            ELSE IF m = mesh THEN upd[q] ELSE "none"]
    /\ UNCHANGED <<mpiSize, dim, file, da, pc, nPts, coords, coords0, bgPt,
                   nLclPts, edPt, nLclAllProcs, offsetsAllProcs, initErr,
                   ctorErr, call, f, fAvgLocal, fAvg, fpc, bd, adv>>

NextMesh == \E r \in Ranks : UpdateMeshIdx(r)

SpecMesh == InitMesh /\ [][NextMesh]_vars

\* marker i is strictly inside the domain of mesh m in every dimension
StrictlyInside(r, m, i) ==
    \A d \in Dofs : m.min[d] < coords[r][i][d] /\ coords[r][i][d] < m.max[d]
Owned(r) == bgPt[r] .. (edPt[r] - 1)

\* C5: updateMeshIdx(mesh) on a rank fails iff some marker the rank owns has
\* in some dimension a coordinate <= min_d or >= max_d (a marker on min_d or
\* max_d is rejected); it succeeds when all owned markers are strictly inside.
C5_UpdateFails ==
    \A r \in Ranks : upd[r] # "none" =>
       /\ upd[r] \in {OK, ErrMaxValue}
       /\ (upd[r] = ErrMaxValue) <=> (\E i \in Owned(r) : ~StrictlyInside(r, mesh, i))
       /\ (upd[r] = OK) <=> (\A i \in Owned(r) : StrictlyInside(r, mesh, i))

\* rank 0 owns a marker on max_0 and fails; rank 1 owns a marker inside and
\* succeeds
C5_Witness ==
    /\ mpiSize = 2 /\ dim = 2 /\ nPts[0] = 2
    /\ nLclPts = (0 :> 1 @@ 1 :> 1)
    /\ mesh.min = (0 :> 0 @@ 1 :> 0) /\ mesh.max = (0 :> 2 @@ 1 :> 2)
    /\ coords[0] = (0 :> (0 :> 2 @@ 1 :> 1) @@ 1 :> (0 :> 1 @@ 1 :> 1))
    /\ upd = (0 :> ErrMaxValue @@ 1 :> OK)

\* the index of the last entry of coord[4][d] that is < x, -1 when none is
LastBelow(m, d, x) ==
    LET S == {j \in 0 .. (m.n[d] - 1) : m.coord[d][j] < x}
    IN  IF S = {} THEN -1 ELSE CHOOSE j \in S : \A k \in S : k <= j
\* the index of the last entry of coord[4][d] that is <= x, -1 when none is
LastAtOrBelow(m, d, x) ==
    LET S == {j \in 0 .. (m.n[d] - 1) : m.coord[d][j] <= x}
    IN  IF S = {} THEN -1 ELSE CHOOSE j \in S : \A k \in S : k <= j
\* marker i of rank r lies in dimension d on the interior vertex x_k
OnVertex(r, m, i, d, k) ==
    0 < k /\ k < m.n[d] - 1 /\ m.coord[d][k] = coords[r][i][d]

\* C12 as stated: after a successful updateMeshIdx(mesh) the stored index of
\* every owned marker in every dimension is the index of the last cell
\* boundary strictly less than the marker's coordinate, so that a marker on
\* the interior boundary x_k has stored index k-1.
C12_Original ==
    \A r \in Ranks : upd[r] = OK =>
       \A i \in Owned(r) : \A d \in Dofs :
          /\ meshIdx[r][i - bgPt[r]][d] = LastBelow(mesh, d, coords[r][i][d])
          /\ \A k \in 0 .. (mesh.n[d] - 1) :
                OnVertex(r, mesh, i, d, k) => meshIdx[r][i - bgPt[r]][d] = k - 1

\* C12 amended: after a successful updateMeshIdx(mesh) the stored index of
\* every owned marker in every dimension is the index of the last cell
\* boundary less than or equal to the marker's coordinate; a marker on the
\* interior boundary x_k has stored index k.
C12_MeshIndex ==
    \A r \in Ranks : upd[r] = OK =>
       \A i \in Owned(r) : \A d \in Dofs :
          /\ meshIdx[r][i - bgPt[r]][d] = LastAtOrBelow(mesh, d, coords[r][i][d])
          /\ \A k \in 0 .. (mesh.n[d] - 1) :
                OnVertex(r, mesh, i, d, k) => meshIdx[r][i - bgPt[r]][d] = k

\* one marker (1, 1): in dimension 0 it lies on the interior boundary x_1 of
\* (0, 1, 2), in dimension 1 between the boundaries of (0, 2)
C12_Witness ==
    /\ mpiSize = 1 /\ dim = 2 /\ nPts[0] = 1
    /\ coords[0] = (0 :> (0 :> 1 @@ 1 :> 1))
    /\ mesh.coord = (0 :> (0 :> 0 @@ 1 :> 1 @@ 2 :> 2) @@ 1 :> (0 :> 0 @@ 1 :> 2))
    /\ upd[0] = OK
    /\ meshIdx[0] = (0 :> (0 :> 1 @@ 1 :> 0))

\* C13: after a successful updateMeshIdx(mesh) every stored index k of an
\* owned marker satisfies 0 <= k <= n-2 and x[k] <= coords[i][d] < x[k+1]:
\* it names an existing cell that encloses the marker, never -1 or n-1.
C13_EnclosingCell ==
    \A r \in Ranks : upd[r] = OK =>
       \A i \in Owned(r) : \A d \in Dofs :
          LET k == meshIdx[r][i - bgPt[r]][d]
              x == mesh.coord[d]
              n == mesh.n[d]
          IN  /\ 0 <= k /\ k <= n - 2
              /\ x[k] <= coords[r][i][d]
              /\ coords[r][i][d] < x[k + 1]

\* two ranks with one marker each, both at (1, 1); rank 1 stores the indices
\* of marker i = 1 at c = i - bgPt = 0: the only cell of (0, 2) and the last
\* cell of (0, 1, 2)
C13_Witness ==
    /\ mpiSize = 2 /\ dim = 2 /\ nPts[0] = 2
    /\ bgPt = (0 :> 0 @@ 1 :> 1) /\ edPt = (0 :> 1 @@ 1 :> 2)
    /\ coords[1] = (0 :> (0 :> 1 @@ 1 :> 1) @@ 1 :> (0 :> 1 @@ 1 :> 1))
    /\ mesh.coord = (0 :> (0 :> 0 @@ 1 :> 2) @@ 1 :> (0 :> 0 @@ 1 :> 1 @@ 2 :> 2))
    /\ upd = (0 :> OK @@ 1 :> OK)
    /\ meshIdx[1] = (0 :> (0 :> 0 @@ 1 :> 1))

\* the (marker, dimension) pairs of rank r in the order of the loops
Pairs(r) == Owned(r) \X Dofs
PairBefore(p, q) == p[1] < q[1] \/ (p[1] = q[1] /\ p[2] < q[2])
\* the pairs of rank r that mesh m rejects
Offending(r, m) ==
    {p \in Pairs(r) : m.min[p[2]] >= coords[r][p[1]][p[2]]
                       \/ m.max[p[2]] <= coords[r][p[1]][p[2]]}
FirstOffending(r, m) ==
    CHOOSE p \in Offending(r, m) : \A q \in Offending(r, m) : q = p \/ PairBefore(p, q)
\* rank r makes a call in the step (a repeated call with the same mesh
\* changes nothing and is a stuttering step)
Calls(r) == upd'[r] # "none" /\ (upd[r] = "none" \/ mesh' # mesh)

\* C14: a call of updateMeshIdx that fails stops at the first offending
\* (marker, dimension) pair in the order marker-major, dimension-minor: every
\* entry before that pair holds the index computed from the new mesh, the
\* offending entry and all later entries keep the values they had before the
\* call, and the call writes only the entries of the calling rank's markers.
C14_PartialUpdate ==
    [][\A r \in Ranks : Calls(r) =>
          /\ upd'[r] = ErrMaxValue =>
                /\ Offending(r, mesh') # {}
                /\ LET p0 == FirstOffending(r, mesh')
                   IN  \A p \in Pairs(r) :
                          meshIdx'[r][p[1] - bgPt[r]][p[2]] =
                             IF PairBefore(p, p0)
                             THEN LastAtOrBelow(mesh', p[2], coords[r][p[1]][p[2]])
                             ELSE meshIdx[r][p[1] - bgPt[r]][p[2]]
          /\ DOMAIN meshIdx'[r] = 0 .. (nLclPts[r] - 1)
          /\ \A q \in Ranks \ {r} : meshIdx'[q] = meshIdx[q]]_vars

\* the marker (1, 1) after a successful call with the mesh (0, 1, 2) x
\* (0, 1, 2) or (0, 2) x (0, 1, 2), which stored 1 in dimension 1, and a
\* failing call with the mesh (0, 2) x (0, 1): dimension 0 holds the new
\* index 0, dimension 1, where the marker is on max_1, keeps the 1 of the
\* earlier call
C14_Witness ==
    /\ mpiSize = 1 /\ dim = 2 /\ nPts[0] = 1
    /\ coords[0] = (0 :> (0 :> 1 @@ 1 :> 1))
    /\ mesh.coord = (0 :> (0 :> 0 @@ 1 :> 2) @@ 1 :> (0 :> 0 @@ 1 :> 1))
    /\ upd[0] = ErrMaxValue
    /\ meshIdx[0] = (0 :> (0 :> 0 @@ 1 :> 1))

(***************************************************************************)
(* boundary::createSingleBoundary, singleboundary.cpp lines 22-55.         *)
(* bcType is an enumeration value; "UNRECOGNISED" stands for a value that  *)
(* is none of the five enumerators the switch names.                       *)
(***************************************************************************)
BCTypes == {"NOBC", "PERIODIC", "DIRICHLET", "NEUMANN", "CONVECTIVE"}
BCLocs == {"XMINUS", "XPLUS"}
Fields == {"u", "p"}
BCValues == {0, 1}

\* std::make_shared<C>(mesh, loc, field, value)
MakeShared(class, loc, field, value) ==
    [class |-> class, loc |-> loc, field |-> field, value |-> value]

\* the switch of lines 30-52 and the return of line 54; before is the value of
\* the caller's singleBd
createSingleBoundary(loc, field, value, bcType, before) ==
    [ret |-> OK,
     singleBd |->
        CASE bcType = "NOBC" -> MakeShared("SingleBoundaryBase", loc, field, value)
          [] bcType = "PERIODIC" -> MakeShared("SingleBoundaryPeriodic", loc, field, value)
          [] bcType = "DIRICHLET" -> MakeShared("SingleBoundaryDirichlet", loc, field, value)
          [] bcType = "NEUMANN" -> MakeShared("SingleBoundaryNeumann", loc, field, value)
          [] bcType = "CONVECTIVE" -> MakeShared("SingleBoundaryConvective", loc, field, value)
          [] OTHER -> before]

InitBoundary ==
    /\ mpiSize = 1
    /\ dim = 1
    /\ file = [ok |-> FALSE, nPts |-> 0, fdim |-> 1, coords |-> EmptyVec]
    /\ da = NoDA
    /\ InitBase(1)
    /\ call = NoCall
    /\ mesh = IdleMesh
    /\ upd = Vec1D(1, "none")
    /\ f = EmptyVec
    /\ fAvgLocal = Vec1D(1, EmptyVec)
    /\ fAvg = Vec1D(1, EmptyVec)
    /\ fpc = Vec1D(1, "idle")
    /\ bd = IdleBd
    /\ adv = IdleAdv

CreateSingleBoundary ==
    \E loc \in BCLocs, field \in Fields, value \in BCValues,
       bcType \in BCTypes \cup {"UNRECOGNISED"} :
        LET res == createSingleBoundary(loc, field, value, bcType, bd.singleBd)
        IN  /\ bd' = [called |-> TRUE, bcType |-> bcType, loc |-> loc,
                      field |-> field, value |-> value, ret |-> res.ret,
                      before |-> bd.singleBd, singleBd |-> res.singleBd]
            /\ UNCHANGED <<bodyVars, call, mesh, upd, f, fAvgLocal, fAvg, fpc, adv>>

NextBoundary == CreateSingleBoundary

SpecBoundary == InitBoundary /\ [][NextBoundary]_vars

ClassOf(bcType) ==
    CASE bcType = "NOBC" -> "SingleBoundaryBase"
      [] bcType = "PERIODIC" -> "SingleBoundaryPeriodic"
      [] bcType = "DIRICHLET" -> "SingleBoundaryDirichlet"
      [] bcType = "NEUMANN" -> "SingleBoundaryNeumann"
      [] bcType = "CONVECTIVE" -> "SingleBoundaryConvective"
      [] OTHER -> "none"

\* C7: for each of the five boundary types createSingleBoundary returns
\* success and sets the output to the strategy of that type built from the
\* arguments; for any other type tag it reports an error instead of
\* returning success with the output unset or unchanged.
C7_Original ==
    bd.called =>
       /\ bd.bcType \in BCTypes =>
             /\ bd.ret = OK
             /\ bd.singleBd = MakeShared(ClassOf(bd.bcType), bd.loc, bd.field, bd.value)
       /\ bd.bcType \notin BCTypes => bd.ret # OK

(***************************************************************************)
(* DecoupledIBPMSolver::advance, declared at decoupledibpm.h lines 66-67;  *)
(* its stages are the methods declared at lines 147-161 and the inherited  *)
(* solveVelocity and solvePoisson.  One step runs the stages in program    *)
(* order; a stage that returns an error makes advance return it at once,   *)
(* and the run ends.  The order of the Poisson pair and the forces pair    *)
(* is fixed for a run by forcesFirst.                                      *)
(***************************************************************************)
\* a projection that runs before the forces are solved
StageOrder_projectEarly(forcesFirst) ==
    <<"assembleRHSVelocity", "solveVelocity", "assembleRHSPoisson",
      "solvePoisson", "projectionStep", "assembleRHSForces", "solveForces">>
StageOrder(forcesFirst) ==
    IF forcesFirst
    THEN <<"assembleRHSVelocity", "solveVelocity", "assembleRHSForces",
           "solveForces", "assembleRHSPoisson", "solvePoisson", "projectionStep">>
    ELSE <<"assembleRHSVelocity", "solveVelocity", "assembleRHSPoisson",
           "solvePoisson", "assembleRHSForces", "solveForces", "projectionStep">>

InitAdvance ==
    /\ mpiSize = 1
    /\ dim = 1
    /\ file = [ok |-> FALSE, nPts |-> 0, fdim |-> 1, coords |-> EmptyVec]
    /\ da = NoDA
    /\ InitBase(1)
    /\ call = NoCall
    /\ mesh = IdleMesh
    /\ upd = Vec1D(1, "none")
    /\ f = EmptyVec
    /\ fAvgLocal = Vec1D(1, EmptyVec)
    /\ fAvg = Vec1D(1, EmptyVec)
    /\ fpc = Vec1D(1, "idle")
    /\ bd = IdleBd
    /\ \E ff \in BOOLEAN :
          adv = [forcesFirst |-> ff, ite |-> 0, pos |-> 1, failed |-> FALSE,
                 log |-> << >>]

\* the stage at position adv.pos of the current step runs and returns ok
RunStage(ok) ==
    /\ ~adv.failed
    /\ adv.ite < MaxSteps
    /\ LET order == StageOrder(adv.forcesFirst)
           entry == [ite |-> adv.ite, stage |-> order[adv.pos], ok |-> ok]
           last == adv.pos = Len(order)
       IN  adv' = [adv EXCEPT
                     !.log = Append(@, entry),
                     !.failed = ~ok,
                     !.pos = IF ok THEN (IF last THEN 1 ELSE @ + 1) ELSE @,
                     !.ite = IF ok /\ last THEN @ + 1 ELSE @]
    /\ UNCHANGED <<bodyVars, call, mesh, upd, f, fAvgLocal, fAvg, fpc, bd>>

StageSucceeds == RunStage(TRUE)
StageFails == RunStage(FALSE)

NextAdvance == StageSucceeds \/ StageFails

SpecAdvance == InitAdvance /\ [][NextAdvance]_vars

\* log entry j is stage st; some earlier entry of the same step is stage pre
\* and succeeded
Precedes(pre, st) ==
    \A j \in 1 .. Len(adv.log) : adv.log[j].stage = st =>
       \E i \in 1 .. (j - 1) :
          /\ adv.log[i].ite = adv.log[j].ite
          /\ adv.log[i].stage = pre
          /\ adv.log[i].ok

Partitioned(r) == pc[r] \in {"barrier", "done"}
AllContributed == \A r \in Ranks : Contributed(r)
Owners(i) == {r \in Ranks : bgPt[r] <= i /\ i < edPt[r]}

\* C1: after createDMDA the ranges [bgPt_r, edPt_r), edPt_r = bgPt_r +
\* nLclPts_r, are a contiguous, gap-free, non-overlapping cover of [0, N) in
\* rank order, and the nLclPts_r sum to N; ranks may own zero markers.
C1_PartitionCover ==
    /\ \A r \in Ranks : Contributed(r) =>
          /\ edPt[r] = bgPt[r] + nLclPts[r]
          /\ nLclPts[r] >= 0
          /\ (r = 0 => bgPt[r] = 0)
          /\ (r = mpiSize - 1 => edPt[r] = nPts[r])
          /\ ((r + 1) \in Ranks /\ Contributed(r + 1) => edPt[r] = bgPt[r + 1])
    /\ AllContributed =>
          /\ SumTo(nLclPts, mpiSize) = nPts[0]
          /\ \A i \in 0 .. (nPts[0] - 1) : Cardinality(Owners(i)) = 1
          /\ \A r \in Ranks : \A i \in bgPt[r] .. (edPt[r] - 1) :
                i \in 0 .. (nPts[0] - 1)

C1_Witness ==
    /\ mpiSize = 2 /\ nPts[0] = 2
    /\ \A r \in Ranks : pc[r] = "done"
    /\ nLclPts = (0 :> 1 @@ 1 :> 1)
    /\ edPt[0] = 1 /\ bgPt[1] = 1 /\ edPt[1] = 2

\* C2: for every marker i in [0, N), findProc(i) succeeds and returns a rank
\* p whose range contains i: offsets[p] <= i*dim < offsets[p] + dim*nLclPts_p
\* and bgPt_p <= i < edPt_p; p never owns zero markers, also when consecutive
\* offsets are equal.
C2_FindProcOwner ==
    /\ \A r \in Ranks : Partitioned(r) =>
          \A i \in 0 .. (nPts[r] - 1) : \A pre \in OutInit :
             LET res == findProc(r, i, pre)
                 p == res.out
                 off == offsetsAllProcs[r]
             IN  /\ res.ierr = OK
                 /\ p \in Ranks
                 /\ off[p] <= i * dim
                 /\ i * dim < off[p] + dim * nLclPts[p]
                 /\ bgPt[p] <= i /\ i < edPt[p]
                 /\ nLclPts[p] > 0
    /\ (call.op = "findProc" /\ Partitioned(call.rank) /\ call.ierr = OK) =>
          /\ call.out \in Ranks
          /\ bgPt[call.out] <= call.i /\ call.i < edPt[call.out]

\* ranks 0 and 1 own nothing (equal consecutive offsets), rank 2 owns marker 1
C2_Witness ==
    /\ mpiSize = 3 /\ dim = 2
    /\ \A r \in Ranks : pc[r] = "done"
    /\ nLclPts = (0 :> 1 @@ 1 :> 0 @@ 2 :> 1)
    /\ offsetsAllProcs[0] = (0 :> 0 @@ 1 :> 2 @@ 2 :> 2)
    /\ call.op = "findProc" /\ call.i = 1 /\ call.ierr = OK /\ call.out = 2

ValidPairs(r) == (0 .. (nPts[r] - 1)) \X Dofs

\* C3: for i in [0, N) and dof in [0, dim), getGlobalIndex(i, dof) succeeds
\* and returns i*dim + dof; the mapping is injective with image [0, N*dim);
\* the MatStencil overload returns the same for (s.i, s.c).
C3_GlobalIndex ==
    /\ \A r \in Ranks : Constructed(r) =>
          /\ \A v \in ValidPairs(r) : \A pre \in OutInit :
                LET res == getGlobalIndex(r, v[1], v[2], pre)
                IN  /\ res.ierr = OK
                    /\ res.out = v[1] * dim + v[2]
                    /\ getGlobalIndexStencil(r, [i |-> v[1], c |-> v[2]], pre) = res
          /\ \A v, w \in ValidPairs(r) :
                getGlobalIndex(r, v[1], v[2], 1).out = getGlobalIndex(r, w[1], w[2], 1).out
                   => v = w
          /\ {getGlobalIndex(r, v[1], v[2], 1).out : v \in ValidPairs(r)}
                = 0 .. (nPts[r] * dim - 1)
    /\ (call.op \in {"getGlobalIndex", "getGlobalIndexStencil"} /\ call.ierr = OK) =>
          /\ call.out = call.i * dim + call.dof
          /\ call.out \in 0 .. (nPts[call.rank] * dim - 1)

C3_Witness ==
    /\ dim = 2 /\ nPts[0] = 2
    /\ call.op = "getGlobalIndexStencil" /\ call.rank = 0
    /\ call.i = 1 /\ call.dof = 1 /\ call.ierr = OK /\ call.out = 3

\* C4 as stated: the table has P+1 entries offsets[0..P], offsets[0] = 0 and
\* offsets[r+1] - offsets[r] = dim * nLclPts_r for every rank r in [0, P), so
\* that offsets[P] = dim * N.
C4_Original ==
    \A r \in Ranks : Partitioned(r) =>
       LET off == offsetsAllProcs[r]
       IN  /\ DOMAIN off = 0 .. mpiSize
           /\ off[0] = 0
           /\ \A q \in Ranks : off[q + 1] - off[q] = dim * nLclPts[q]
           /\ off[mpiSize] = dim * nPts[r]

\* C4, amended: the table has P entries offsets[0..P-1], the same on every
\* rank; it is non-decreasing, offsets[0] = 0, offsets[r] = dim * bgPt_r for
\* every rank r and offsets[r+1] - offsets[r] = dim * nLclPts_r for r in
\* [0, P-1); the upper bound dim*N of the last rank is not an entry of the
\* table: it is offsets[P-1] + nLclAllProcs[P-1].
C4_OffsetTable ==
    \A r \in Ranks : Partitioned(r) =>
       LET off == offsetsAllProcs[r]
           nl == nLclAllProcs[r]
       IN  /\ DOMAIN off = Ranks
           /\ DOMAIN nl = Ranks
           /\ off[0] = 0
           /\ \A q \in Ranks :
                 /\ nl[q] = dim * nLclPts[q]
                 /\ off[q] = dim * bgPt[q]
                 /\ (q + 1) \in Ranks =>
                       /\ off[q + 1] - off[q] = dim * nLclPts[q]
                       /\ off[q] <= off[q + 1]
           /\ off[mpiSize - 1] + nl[mpiSize - 1] = dim * nPts[r]
           /\ \A q \in Ranks : Partitioned(q) => offsetsAllProcs[q] = off

C4_Witness ==
    /\ mpiSize = 3 /\ dim = 2 /\ nPts[0] = 2
    /\ \A r \in Ranks : pc[r] = "done"
    /\ nLclPts = (0 :> 1 @@ 1 :> 1 @@ 2 :> 0)
    /\ \A r \in Ranks : offsetsAllProcs[r] = (0 :> 0 @@ 1 :> 2 @@ 2 :> 4)

\* C8: every error raised while the body is initialised reaches the caller
\* that constructs the object; no caller holds an object whose init stopped
\* early.
C8_Original ==
    \A r \in Ranks : Constructed(r) =>
       /\ ctorErr[r] = initErr[r]
       /\ (initErr[r] # OK => ctorErr[r] # OK)

BadIndex(r, i) == (i < 0) \/ (i >= nPts[r])
BadDof(dof) == (dof < 0) \/ (dof >= dim)

\* C9: findProc(i) fails exactly when i < 0 or i >= N; getGlobalIndex(i, dof)
\* fails exactly when i < 0, i >= N, dof < 0 or dof >= dim, the marker index
\* being checked first; both fail with the out-of-range error and leave the
\* output argument as it was.
C9_OutOfRange ==
    /\ call.op = "findProc" =>
          /\ (call.ierr # OK) <=> BadIndex(call.rank, call.i)
          /\ call.ierr # OK =>
                call.ierr = ErrArgSiz /\ call.msg = "index" /\ call.out = call.pre
    /\ call.op \in {"getGlobalIndex", "getGlobalIndexStencil"} =>
          /\ (call.ierr # OK) <=> (BadIndex(call.rank, call.i) \/ BadDof(call.dof))
          /\ call.ierr # OK => call.ierr = ErrArgSiz /\ call.out = call.pre
          /\ BadIndex(call.rank, call.i) => call.msg = "index"
          /\ (~BadIndex(call.rank, call.i) /\ BadDof(call.dof)) => call.msg = "dof"
    /\ \A r \in Ranks : Constructed(r) =>
          \A i \in -1 .. MaxN : \A pre \in OutInit :
             /\ (findProc(r, i, pre).ierr # OK) <=> BadIndex(r, i)
             /\ \A dof \in -1 .. MaxDim :
                   (getGlobalIndex(r, i, dof, pre).ierr # OK)
                      <=> (BadIndex(r, i) \/ BadDof(dof))

\* both the index and the dof are out of range: the index error is reported
C9_Witness ==
    /\ call.op = "getGlobalIndex" /\ pc[call.rank] = "done"
    /\ call.i = nPts[call.rank] /\ call.dof = dim
    /\ call.ierr = ErrArgSiz /\ call.msg = "index" /\ call.pre = -7 /\ call.out = -7

====
